---- MODULE Spec2Model ----
(***************************************************************************)
(* A model of the HappyBase compatibility layer of gcloud_bigtable:        *)
(*   - the byte-string successor used to turn a row prefix into a range,   *)
(*   - the row-filter helpers and the filters the Table read methods build,*)
(*   - the conversion of a garbage-collection rule to a HappyBase dict,    *)
(*   - Operation.finished and the loop that waits for an operation.        *)
(* A Python str/bytes value is a sequence: of byte values (row keys) or of *)
(* one-character strings (column names).  None is the empty sequence and   *)
(* a present optional value x is the one-element sequence <<x>>.           *)
(***************************************************************************)
EXTENDS Integers, Sequences, FiniteSets, TLC

VARIABLES
    str_val,        \* argument of the _string_successor call in progress
    succ_pc,        \* "call" before _string_successor runs, "done" after
    succ_result,    \* what _string_successor returned
    call,           \* the last filter-building call: its name and arguments
    ret,            \* its outcome: the exception raised and the filter built
    read_request,   \* the low-level read it issued, None when it issued none
    ret_again,      \* the outcome of the same call made once more, or None
    rows_data,      \* the row keys the read of Table.rows returned, or None
    rows_result,    \* the list Table.rows returned, or None
    gc_rule,        \* argument of the _gc_rule_to_dict call in progress
    gc_pc,          \* "call" before _gc_rule_to_dict runs, "done" after
    gc_result,      \* what _gc_rule_to_dict returned
    op_complete,    \* Operation._complete
    get_operation_calls,  \* GetOperation requests finished() has issued
    finished_calls, \* finished() calls begun
    fin_pc,         \* per caller: where its finished() call stands
    fin_given,      \* per caller: the timeout_seconds argument of its call
    fin_timeout,    \* per caller: the timeout its request carries
    fin_response,   \* per caller: what its request gave
    fin_return,     \* per caller: what its last finished() call gave
    wait_pc,        \* where the wait loop stands, or how it ended
    wait_args,      \* retry cap, base wait and timeout of the wait loop
    wait_count,     \* sleeps the wait loop has taken
    wait_trace,     \* its status queries and sleeps, in order
    wait_result,    \* the query whose operation message it returned
    wait_error,     \* the exception it raised
    counter_cell,   \* the stored value of the counter column, None before
                    \* the column exists
    counter_response,  \* the cells of the column in the last response
    counter_log     \* the counter calls made, in order, with their outcomes

vars ==
    <<str_val, succ_pc, succ_result, call, ret, read_request,
      ret_again, rows_data, rows_result,
      gc_rule, gc_pc, gc_result,
      op_complete, get_operation_calls, finished_calls,
      fin_pc, fin_given, fin_timeout, fin_response, fin_return,
      wait_pc, wait_args, wait_count, wait_trace, wait_result, wait_error,
      counter_cell, counter_response, counter_log>>
succVars == <<str_val, succ_pc, succ_result>>
filterVars == <<call, ret, read_request, ret_again, rows_data, rows_result>>
gcVars == <<gc_rule, gc_pc, gc_result>>
opVars ==
    <<op_complete, get_operation_calls, finished_calls,
      fin_pc, fin_given, fin_timeout, fin_response, fin_return>>
waitVars ==
    <<wait_pc, wait_args, wait_count, wait_trace, wait_result, wait_error>>
counterVars == <<counter_cell, counter_response, counter_log>>

None == <<>>
Some(x) == <<x>>

(***************************************************************************)
(* Bounds of the model.                                                    *)
(***************************************************************************)
MaxLen == 3          \* longest byte string given to _string_successor
MaxProbe == 2        \* longest byte string compared against a successor
MaxExt == 1          \* longest suffix appended to a prefix
MaxColumns == 3      \* longest columns list
MaxRowKeys == 2      \* longest rows list
MaxTimestamp == 2    \* largest timestamp argument (milliseconds)
MaxVersions == 2     \* largest versions argument

\* The largest byte value, 0xff.
MaxByte == 255

\* Byte values the inputs are drawn from: both ends of the byte range, the
\* neighbours of 0xff and three letters (a, b, c).
ByteSample == {0, 97, 98, 99, 254, MaxByte}

RECURSIVE SeqsUpTo(_, _)
SeqsUpTo(S, n) ==
    IF n = 0 THEN {<<>>}
    ELSE LET shorter == SeqsUpTo(S, n - 1)
         IN  shorter \cup {Append(s, x) : s \in shorter, x \in S}

(***************************************************************************)
(* _string_successor                                                       *)
(***************************************************************************)

\* _next_char: the byte after the one at index (1-based here).
next_char(str_val_, index) == <<str_val_[index] + 1>>

\* The while loop of _string_successor: from index down, the first position
\* whose byte is not 0xff; 0 when there is none (Python's -1).
RECURSIVE scan_back(_, _)
scan_back(str_val_, index) ==
    IF index >= 1 /\ str_val_[index] = MaxByte
    THEN scan_back(str_val_, index - 1)
    ELSE index

string_successor_no_truncate(str_val_) ==
    IF str_val_ = <<>> THEN str_val_
    ELSE LET index == scan_back(str_val_, Len(str_val_))
         IN  IF index = 0 THEN <<>>
             ELSE [str_val_ EXCEPT ![index] = str_val_[index] + 1]

string_successor_last_byte(str_val_) ==
    IF str_val_ = <<>> THEN str_val_
    ELSE LET index == Len(str_val_)
         IN  IF str_val_[index] = MaxByte THEN <<>>
             ELSE SubSeq(str_val_, 1, index - 1) \o next_char(str_val_, index)

string_successor(str_val_) ==
    IF str_val_ = <<>> THEN str_val_
    ELSE LET index == scan_back(str_val_, Len(str_val_))
         IN  IF index = 0 THEN <<>>
             ELSE SubSeq(str_val_, 1, index - 1) \o next_char(str_val_, index)

\* A caller hands a byte string to _string_successor.
SuccIdle ==
    /\ str_val = <<>>
    /\ succ_pc = "call"
    /\ succ_result = <<>>

SuccInit ==
    /\ str_val \in SeqsUpTo(ByteSample, MaxLen)
    /\ succ_pc = "call"
    /\ succ_result = <<>>

CallStringSuccessor ==
    /\ succ_pc = "call"
    /\ succ_result' = string_successor(str_val)
    /\ succ_pc' = "done"
    /\ UNCHANGED <<str_val, filterVars, gcVars, opVars, waitVars, counterVars>>

(***************************************************************************)
(* Row filters (gcloud_bigtable.row) as values                             *)
(***************************************************************************)
FamilyNameRegexFilter(regex) ==
    [kind |-> "FamilyNameRegexFilter", regex |-> regex]

ColumnQualifierRegexFilter(regex) ==
    [kind |-> "ColumnQualifierRegexFilter", regex |-> regex]

RowKeyRegexFilter(regex) ==
    [kind |-> "RowKeyRegexFilter", regex |-> regex]

CellsColumnLimitFilter(num_cells) ==
    [kind |-> "CellsColumnLimitFilter", num_cells |-> num_cells]

TimestampRange(start, end) ==
    [start |-> start, end |-> end]

TimestampRangeFilter(range_) ==
    [kind |-> "TimestampRangeFilter", range_ |-> range_]

RowFilterChain(filters) ==
    [kind |-> "RowFilterChain", filters |-> filters]

RowFilterUnion(filters) ==
    [kind |-> "RowFilterUnion", filters |-> filters]

\* Stands where a call produced no filter.
NoFilter == [kind |-> "None"]

\* A datetime as whole seconds since the epoch and the microseconds within
\* the second.
microseconds_to_timestamp(microseconds) ==
    [second |-> microseconds \div 1000000,
     microsecond |-> microseconds % 1000000]

timestamp_to_microseconds(timestamp) ==
    timestamp.second * 1000000 + timestamp.microsecond

\* Whether a cell stamped at the given microseconds falls in a range: the
\* start is inclusive and the end exclusive.
TimestampRangeMatches(range_, cell_micros) ==
    /\ \/ range_.start = None
       \/ timestamp_to_microseconds(range_.start[1]) <= cell_micros
    /\ \/ range_.end = None
       \/ cell_micros < timestamp_to_microseconds(range_.end[1])

(***************************************************************************)
(* Column names                                                            *)
(***************************************************************************)
\* str.split(sep) for a one-character separator: the parts between the
\* separators, empty parts kept.
RECURSIVE split_from(_, _, _, _)
split_from(s, sep, i, part) ==
    IF i > Len(s) THEN <<part>>
    ELSE IF s[i] = sep THEN <<part>> \o split_from(s, sep, i + 1, <<>>)
    ELSE split_from(s, sep, i + 1, Append(part, s[i]))

split(s, sep) == split_from(s, sep, 1, <<>>)

\* _get_column_pairs for one column name: "fam" and "fam:" name a family
\* (no qualifier), "fam:col" a family and a qualifier.
column_pair(column) ==
    LET stripped == IF Len(column) > 0 /\ column[Len(column)] = ":"
                    THEN SubSeq(column, 1, Len(column) - 1)
                    ELSE column
        parts == split(stripped, ":")
    IN  IF Len(parts) = 1 THEN <<stripped, None>>
        ELSE <<parts[1], Some(parts[2])>>

get_column_pairs(columns) ==
    [i \in 1..Len(columns) |-> column_pair(columns[i])]

(***************************************************************************)
(* The filter helpers.  A helper's outcome is the exception it raised ("" *)
(* when it returned), the filter it returned and, for the chain helper,   *)
(* the filters list as the call left it.                                   *)
(***************************************************************************)
Return(value, filters) ==
    [raised |-> "", value |-> value, filters |-> filters]

Raise(exception, filters) ==
    [raised |-> exception, value |-> NoFilter, filters |-> filters]

\* As _convert_to_time_range, the cutoff made inclusive by one millisecond.
convert_to_time_range_inclusive(timestamp) ==
    IF timestamp = None THEN None
    ELSE Some(TimestampRange(None,
              Some(microseconds_to_timestamp(1000 * (timestamp[1] + 1)))))

convert_to_time_range(timestamp) ==
    IF timestamp = None THEN None
    ELSE LET next_timestamp == microseconds_to_timestamp(1000 * timestamp[1])
         IN  Some(TimestampRange(None, Some(next_timestamp)))

\* As chain_filters, the timestamp leaf added before the version cap.
chain_filters_timestamp_first(column, versions, timestamp, filters) ==
    LET filters0 == IF filters = None THEN <<>> ELSE filters[1]
        parts == IF column = None THEN <<>> ELSE split(column[1], ":")
        filters1 == IF column # None /\ Len(parts) = 2
                    THEN filters0 \o <<FamilyNameRegexFilter(parts[1]),
                                      ColumnQualifierRegexFilter(parts[2])>>
                    ELSE filters0
        time_range == convert_to_time_range(timestamp)
        filters2 == IF time_range # None
                    THEN Append(filters1, TimestampRangeFilter(time_range[1]))
                    ELSE filters1
    IN  IF versions # None
        THEN Append(filters2, CellsColumnLimitFilter(versions[1]))
        ELSE filters2

\* The filters list of _filter_chain_helper after each of its steps.
chain_filters(column, versions, timestamp, filters) ==
    LET filters0 == IF filters = None THEN <<>> ELSE filters[1]
        parts == IF column = None THEN <<>> ELSE split(column[1], ":")
        filters1 == IF column # None /\ Len(parts) = 2
                    THEN filters0 \o <<FamilyNameRegexFilter(parts[1]),
                                      ColumnQualifierRegexFilter(parts[2])>>
                    ELSE filters0
        filters2 == IF versions # None
                    THEN Append(filters1, CellsColumnLimitFilter(versions[1]))
                    ELSE filters1
        time_range == convert_to_time_range(timestamp)
    IN  IF time_range # None
        THEN Append(filters2, TimestampRangeFilter(time_range[1]))
        ELSE filters2

\* As filter_chain_helper, an empty chain returned where it raises.
filter_chain_helper_empty_chain(column, versions, timestamp, filters) ==
    LET filters0 == IF filters = None THEN <<>> ELSE filters[1]
        filters_ == chain_filters(column, versions, timestamp, filters)
        num_filters == Len(filters_)
    IN  IF column # None /\ Len(split(column[1], ":")) # 2
        THEN Raise("ValueError", filters0)
        ELSE IF num_filters = 1 THEN Return(filters_[1], filters_)
        ELSE Return(RowFilterChain(filters_), filters_)

\* As filter_chain_helper, a column that does not split in two left out.
filter_chain_helper_skips_column(column, versions, timestamp, filters) ==
    LET filters_ == chain_filters(column, versions, timestamp, filters)
        num_filters == Len(filters_)
    IN  IF num_filters = 0 THEN Raise("ValueError", filters_)
        ELSE IF num_filters = 1 THEN Return(filters_[1], filters_)
        ELSE Return(RowFilterChain(filters_), filters_)

filter_chain_helper(column, versions, timestamp, filters) ==
    LET filters0 == IF filters = None THEN <<>> ELSE filters[1]
        filters_ == chain_filters(column, versions, timestamp, filters)
        num_filters == Len(filters_)
    IN  IF column # None /\ Len(split(column[1], ":")) # 2
        THEN Raise("ValueError", filters0)
        ELSE IF num_filters = 0 THEN Raise("ValueError", filters_)
        ELSE IF num_filters = 1 THEN Return(filters_[1], filters_)
        ELSE Return(RowFilterChain(filters_), filters_)

\* As columns_filter_helper, a single predicate wrapped in a union too.
columns_filter_helper_always_union(columns) ==
    LET pairs == get_column_pairs(columns)
        filters == [i \in 1..Len(pairs) |->
                      LET fam_filter == FamilyNameRegexFilter(pairs[i][1])
                      IN  IF pairs[i][2] # None
                          THEN RowFilterChain(<<fam_filter,
                                   ColumnQualifierRegexFilter(pairs[i][2][1])>>)
                          ELSE fam_filter]
    IN  IF Len(filters) = 0 THEN Raise("ValueError", filters)
        ELSE Return(RowFilterUnion(filters), filters)

columns_filter_helper(columns) ==
    LET pairs == get_column_pairs(columns)
        filters == [i \in 1..Len(pairs) |->
                      LET fam_filter == FamilyNameRegexFilter(pairs[i][1])
                      IN  IF pairs[i][2] # None
                          THEN RowFilterChain(<<fam_filter,
                                   ColumnQualifierRegexFilter(pairs[i][2][1])>>)
                          ELSE fam_filter]
        num_filters == Len(filters)
    IN  IF num_filters = 0 THEN Raise("ValueError", filters)
        ELSE IF num_filters = 1 THEN Return(filters[1], filters)
        ELSE Return(RowFilterUnion(filters), filters)

\* As row_keys_filter_helper, an empty union returned where it raises.
row_keys_filter_helper_no_raise(row_keys) ==
    LET filters == [i \in 1..Len(row_keys) |-> RowKeyRegexFilter(row_keys[i])]
    IN  IF Len(filters) = 1 THEN Return(filters[1], filters)
        ELSE Return(RowFilterUnion(filters), filters)

\* As row_keys_filter_helper, a single leaf wrapped in a union too.
row_keys_filter_helper_always_union(row_keys) ==
    LET filters == [i \in 1..Len(row_keys) |-> RowKeyRegexFilter(row_keys[i])]
    IN  IF Len(filters) = 0 THEN Raise("ValueError", filters)
        ELSE Return(RowFilterUnion(filters), filters)

row_keys_filter_helper(row_keys) ==
    LET filters == [i \in 1..Len(row_keys) |-> RowKeyRegexFilter(row_keys[i])]
        num_filters == Len(filters)
    IN  IF num_filters = 0 THEN Raise("ValueError", filters)
        ELSE IF num_filters = 1 THEN Return(filters[1], filters)
        ELSE Return(RowFilterUnion(filters), filters)

(***************************************************************************)
(* The filters the Table read methods build and the reads they issue.      *)
(***************************************************************************)
\* Table.row: lines 462-467, the filter; 469-470, the read.
row_filter(columns, timestamp) ==
    LET cols == IF columns # None THEN columns_filter_helper(columns[1])
                ELSE Return(NoFilter, <<>>)
        filters == IF columns # None THEN <<cols.value>> ELSE <<>>
    IN  IF cols.raised # "" THEN Raise(cols.raised, <<>>)
        ELSE filter_chain_helper(None, Some(1), timestamp, Some(filters))

\* As rows_filter, the row-key predicate put before the column predicate.
rows_filter_keys_first(rows, columns, timestamp) ==
    LET cols == IF columns # None THEN columns_filter_helper(columns[1])
                ELSE Return(NoFilter, <<>>)
        keys == row_keys_filter_helper(rows)
        filters == IF columns # None THEN <<keys.value, cols.value>>
                   ELSE <<keys.value>>
    IN  IF cols.raised # "" THEN Raise(cols.raised, <<>>)
        ELSE IF keys.raised # "" THEN Raise(keys.raised, <<>>)
        ELSE filter_chain_helper(None, Some(1), timestamp, Some(filters))

\* Table.rows: lines 511-517.  Reached only with a non-empty rows list.
rows_filter(rows, columns, timestamp) ==
    LET cols == IF columns # None THEN columns_filter_helper(columns[1])
                ELSE Return(NoFilter, <<>>)
        keys == row_keys_filter_helper(rows)
        filters0 == IF columns # None THEN <<cols.value>> ELSE <<>>
        filters == Append(filters0, keys.value)
    IN  IF cols.raised # "" THEN Raise(cols.raised, <<>>)
        ELSE IF keys.raised # "" THEN Raise(keys.raised, filters0)
        ELSE filter_chain_helper(None, Some(1), timestamp, Some(filters))

\* Table.cells: lines 562-563.
cells_filter(column, versions, timestamp) ==
    filter_chain_helper(Some(column), versions, timestamp, None)

\* A variant of Table.scan without the test of the limit.
scan_filter_any_limit(row_start, row_stop, row_prefix, columns, filter, timestamp, limit, unsupported) ==
    LET filters0 == IF filter # None THEN <<filter[1]>> ELSE <<>>
        cols == IF columns # None THEN columns_filter_helper(columns[1])
                ELSE Return(NoFilter, <<>>)
        filters == IF columns # None THEN Append(filters0, cols.value)
                   ELSE filters0
    IN  IF unsupported # "" THEN Raise("ValueError", <<>>)
        ELSE IF /\ row_prefix # None
                /\ (row_start # None \/ row_stop # None)
             THEN Raise("ValueError", <<>>)
        ELSE IF filter # None /\ filter[1].kind = "str"
             THEN Raise("TypeError", <<>>)
        ELSE IF cols.raised # "" THEN Raise(cols.raised, filters0)
        ELSE filter_chain_helper(None, Some(1), timestamp, Some(filters))

\* Table.scan: lines 666-696, run when the generator is first advanced.
\* filter is None, an HBase filter string
\* (kind "str") or a row filter; unsupported names the compatibility
\* argument that was set, "" when none was.
scan_filter(row_start, row_stop, row_prefix, columns, filter, timestamp, limit, unsupported) ==
    LET filters0 == IF filter # None THEN <<filter[1]>> ELSE <<>>
        cols == IF columns # None THEN columns_filter_helper(columns[1])
                ELSE Return(NoFilter, <<>>)
        filters == IF columns # None THEN Append(filters0, cols.value)
                   ELSE filters0
    IN  IF unsupported # "" THEN Raise("ValueError", <<>>)
        ELSE IF limit # None /\ limit[1] < 1 THEN Raise("ValueError", <<>>)
        ELSE IF /\ row_prefix # None
                /\ (row_start # None \/ row_stop # None)
             THEN Raise("ValueError", <<>>)
        ELSE IF filter # None /\ filter[1].kind = "str"
             THEN Raise("TypeError", <<>>)
        ELSE IF cols.raised # "" THEN Raise(cols.raised, filters0)
        ELSE filter_chain_helper(None, Some(1), timestamp, Some(filters))

\* The key range Table.scan reads: lines 677-682.
scan_start_key(row_start, row_prefix) ==
    IF row_prefix # None THEN row_prefix ELSE row_start

\* A variant that ends the range of a prefix at the prefix itself.
scan_end_key_at_prefix(row_stop, row_prefix) ==
    IF row_prefix # None THEN row_prefix ELSE row_stop

scan_end_key(row_stop, row_prefix) ==
    IF row_prefix # None THEN Some(string_successor(row_prefix[1]))
    ELSE row_stop

ReadRequest(method, row_key, start_key, end_key, limit, filter_) ==
    [method |-> method, row_key |-> row_key, start_key |-> start_key,
     end_key |-> end_key, limit |-> limit, filter_ |-> filter_]

(***************************************************************************)
(* Arguments the calls are made with.                                      *)
(***************************************************************************)
\* Column names as the columns lists carry them: "f", "g:" and "f:c".
ColumnSample == {<<"f">>, <<"g", ":">>, <<"f", ":", "c">>}

\* Column names where a qualifier is required: "f:c", "g:" (an empty
\* qualifier), and two that do not split in two, "f" and "f:c:d".
ColumnArgs ==
    {<<"f", ":", "c">>, <<"g", ":">>, <<"f">>, <<"f", ":", "c", ":", "d">>}

RowKeySample == {<<97>>, <<98>>, <<97, MaxByte>>}

Optional(S) == {None} \cup {Some(x) : x \in S}

\* Milliseconds; 1999 lies past a whole second.
TimestampArgs == Optional((0..MaxTimestamp) \cup {1999})

VersionsArgs == Optional(1..MaxVersions)

ColumnsArgs == Optional(SeqsUpTo(ColumnSample, MaxColumns))

RowsArgs == SeqsUpTo(RowKeySample, MaxRowKeys)

\* Filters a caller brings along: a leaf and a chain of two leaves.
GivenLeaf == [kind |-> "StripValueTransformerFilter", flag |-> TRUE]

GivenChain ==
    RowFilterChain(<<RowKeyRegexFilter(<<97>>), GivenLeaf>>)

GivenFilters == {GivenLeaf, GivenChain}

FiltersArgs == Optional(SeqsUpTo(GivenFilters, 2))

ScanFilterArgs == Optional(GivenFilters \cup {[kind |-> "str"]})

UnsupportedArgs == {"", "batch_size", "scan_batching", "sorted_columns"}

KeyArgs == Optional({<<>>, <<97>>, <<97, MaxByte>>, <<MaxByte>>})

NoArgs ==
    [op |-> "", row |-> None, rows |-> None, column |-> None,
     columns |-> None, versions |-> None, timestamp |-> None,
     filters |-> None, filter |-> None, row_start |-> None,
     row_stop |-> None, row_prefix |-> None, limit |-> None,
     include_timestamp |-> FALSE, unsupported |-> ""]

NoReturn == [raised |-> "", value |-> NoFilter, filters |-> <<>>]

FilterIdle ==
    /\ call = NoArgs
    /\ ret = NoReturn
    /\ read_request = None
    /\ ret_again = None
    /\ rows_data = None
    /\ rows_result = None

(***************************************************************************)
(* The calls.                                                              *)
(***************************************************************************)
CallConvertToTimeRange ==
    /\ call = NoArgs
    /\ \E timestamp \in TimestampArgs :
        LET time_range == convert_to_time_range(timestamp)
        IN  /\ call' = [NoArgs EXCEPT !.op = "_convert_to_time_range",
                                      !.timestamp = timestamp]
            /\ ret' = Return(IF time_range = None THEN NoFilter
                             ELSE time_range[1], <<>>)
            /\ UNCHANGED <<read_request, ret_again, rows_data, rows_result, succVars, gcVars, opVars, waitVars, counterVars>>

CallFilterChainHelper ==
    /\ call = NoArgs
    /\ \E column \in Optional(ColumnArgs), versions \in VersionsArgs,
       timestamp \in TimestampArgs, filters \in FiltersArgs :
        /\ call' = [NoArgs EXCEPT !.op = "_filter_chain_helper",
                                  !.column = column, !.versions = versions,
                                  !.timestamp = timestamp,
                                  !.filters = filters]
        /\ ret' = filter_chain_helper(column, versions, timestamp, filters)
        /\ UNCHANGED <<read_request, ret_again, rows_data, rows_result, succVars, gcVars, opVars, waitVars, counterVars>>

CallColumnsFilterHelper ==
    /\ call = NoArgs
    /\ \E columns \in SeqsUpTo(ColumnSample, MaxColumns) :
        /\ call' = [NoArgs EXCEPT !.op = "_columns_filter_helper",
                                  !.columns = Some(columns)]
        /\ ret' = columns_filter_helper(columns)
        /\ UNCHANGED <<read_request, ret_again, rows_data, rows_result, succVars, gcVars, opVars, waitVars, counterVars>>

CallRowKeysFilterHelper ==
    /\ call = NoArgs
    /\ \E row_keys \in RowsArgs :
        /\ call' = [NoArgs EXCEPT !.op = "_row_keys_filter_helper",
                                  !.rows = Some(row_keys)]
        /\ ret' = row_keys_filter_helper(row_keys)
        /\ UNCHANGED <<read_request, ret_again, rows_data, rows_result, succVars, gcVars, opVars, waitVars, counterVars>>

TableRow ==
    /\ call = NoArgs
    /\ \E row \in RowKeySample, columns \in ColumnsArgs,
       timestamp \in TimestampArgs :
        LET built == row_filter(columns, timestamp)
        IN  /\ call' = [NoArgs EXCEPT !.op = "row", !.row = Some(row),
                                      !.columns = columns,
                                      !.timestamp = timestamp]
            /\ ret' = built
            /\ read_request' =
                   IF built.raised # "" THEN None
                   ELSE Some(ReadRequest("read_row", Some(row), None, None,
                                         None, built.value))
            /\ UNCHANGED <<ret_again, rows_data, rows_result, succVars, gcVars, opVars, waitVars, counterVars>>

\* A cell of a row that was read: its value and its timestamp, a datetime.
Cell(value, second, microsecond) ==
    [value |-> value,
     timestamp |-> [second |-> second, microsecond |-> microsecond]]

\* What the table holds under a row key, as PartialRowData.to_dict gives
\* it: the cells of each column.
StoredRow(row_key) ==
    IF row_key = <<97>>
    THEN [column \in {"f:c"} |-> <<Cell("v1", 2, 999)>>]
    ELSE [column \in {"f:c", "g:"} |->
              IF column = "f:c" THEN <<Cell("v2", 1, 0)>>
              ELSE <<Cell("v3", 0, 1999), Cell("v4", 0, 0)>>]

\* The rows of a consumed read_rows response that returned these keys.
RowsRead(row_keys) == [row_key \in row_keys |-> StoredRow(row_key)]

\* _cells_to_pairs: the value of each cell, paired with the milliseconds of
\* its timestamp when include_timestamp is set.
cells_to_pairs(cells, include_timestamp) ==
    [i \in 1..Len(cells) |->
        IF include_timestamp
        THEN <<cells[i].value,
               timestamp_to_microseconds(cells[i].timestamp) \div 1000>>
        ELSE cells[i].value]

\* _partial_row_to_dict: the first cell of each column.
partial_row_to_dict(partial_row_data, include_timestamp) ==
    [column \in DOMAIN partial_row_data |->
        cells_to_pairs(partial_row_data[column], include_timestamp)[1]]

\* A variant of the loop of Table.rows that gives a pair for every
\* requested key, an empty dictionary for a key that was not read.
rows_result_no_skip(rows, rows_read, include_timestamp) ==
    [i \in 1..Len(rows) |->
        <<rows[i],
          IF rows[i] \in DOMAIN rows_read
          THEN partial_row_to_dict(rows_read[rows[i]], include_timestamp)
          ELSE <<>>>>]

\* Table.rows, lines 524-533: a pair for each requested key that was read,
\* in the order of the request.
rows_result_of(rows, rows_read, include_timestamp) ==
    LET Found(row_key) == row_key \in DOMAIN rows_read
        found == SelectSeq(rows, Found)
    IN  [i \in 1..Len(found) |->
            <<found[i], partial_row_to_dict(rows_read[found[i]], include_timestamp)>>]

\* Table.rows: an empty rows list is answered without a read; otherwise
\* the filter is built, read_rows is called with it, the response is
\* consumed and the result is made from the rows it holds.
TableRows ==
    /\ call = NoArgs
    /\ \E rows \in RowsArgs, columns \in ColumnsArgs,
          timestamp \in TimestampArgs, include_timestamp \in BOOLEAN :
        LET built == IF rows = <<>> THEN NoReturn
                     ELSE rows_filter(rows, columns, timestamp)
            reads == rows # <<>> /\ built.raised = ""
        IN  /\ call' = [NoArgs EXCEPT !.op = "rows", !.rows = Some(rows),
                                      !.columns = columns,
                                      !.timestamp = timestamp,
                                      !.include_timestamp = include_timestamp]
            /\ ret' = built
            /\ read_request' =
                   IF reads
                   THEN Some(ReadRequest("read_rows", None, None, None,
                                         None, built.value))
                   ELSE None
            /\ IF reads
               THEN \E returned \in SUBSET {rows[i] : i \in 1..Len(rows)} :
                        /\ rows_data' = Some(RowsRead(returned))
                        /\ rows_result' =
                               Some(rows_result_of(rows, RowsRead(returned),
                                                   include_timestamp))
               ELSE /\ rows_data' = None
                    /\ rows_result' = IF rows = <<>> THEN Some(<<>>) ELSE None
            /\ UNCHANGED <<ret_again, succVars, gcVars, opVars, waitVars, counterVars>>

TableCells ==
    /\ call = NoArgs
    /\ \E row \in RowKeySample, column \in ColumnArgs,
       versions \in VersionsArgs, timestamp \in TimestampArgs :
        LET built == cells_filter(column, versions, timestamp)
        IN  /\ call' = [NoArgs EXCEPT !.op = "cells", !.row = Some(row),
                                      !.column = Some(column),
                                      !.versions = versions,
                                      !.timestamp = timestamp]
            /\ ret' = built
            /\ read_request' =
                   IF built.raised # "" THEN None
                   ELSE Some(ReadRequest("read_row", Some(row), None, None,
                                         None, built.value))
            /\ UNCHANGED <<ret_again, rows_data, rows_result, succVars, gcVars, opVars, waitVars, counterVars>>

TableScan ==
    /\ call = NoArgs
    /\ \E row_start \in Optional({<<97>>}), row_stop \in Optional({<<98>>}),
       row_prefix \in KeyArgs, columns \in ColumnsArgs,
       filter \in ScanFilterArgs, timestamp \in TimestampArgs,
       limit \in Optional({0, 1}), unsupported \in UnsupportedArgs :
        LET built == scan_filter(row_start, row_stop, row_prefix, columns,
                                 filter, timestamp, limit, unsupported)
        IN  /\ call' = [NoArgs EXCEPT !.op = "scan",
                                      !.row_start = row_start,
                                      !.row_stop = row_stop,
                                      !.row_prefix = row_prefix,
                                      !.columns = columns,
                                      !.filter = filter,
                                      !.timestamp = timestamp,
                                      !.limit = limit,
                                      !.unsupported = unsupported]
            /\ ret' = built
            /\ read_request' =
                   IF built.raised # "" THEN None
                   ELSE Some(ReadRequest("read_rows", None,
                                         scan_start_key(row_start, row_prefix),
                                         scan_end_key(row_stop, row_prefix),
                                         limit, built.value))
            /\ UNCHANGED <<ret_again, rows_data, rows_result, succVars, gcVars, opVars, waitVars, counterVars>>

\* The outcome of making the last call once more with the same arguments.
\* The filters list handed to _filter_chain_helper is the caller's list,
\* which holds by then what the first call left in it; every other call
\* builds its lists itself.
call_again(call_, ret_) ==
    IF call_.op = "_filter_chain_helper"
    THEN filter_chain_helper(call_.column, call_.versions, call_.timestamp,
                             IF call_.filters = None THEN None
                             ELSE Some(ret_.filters))
    ELSE IF call_.op = "_columns_filter_helper"
    THEN columns_filter_helper(call_.columns[1])
    ELSE IF call_.op = "_row_keys_filter_helper"
    THEN row_keys_filter_helper(call_.rows[1])
    ELSE IF call_.op = "row"
    THEN row_filter(call_.columns, call_.timestamp)
    ELSE IF call_.op = "rows"
    THEN IF call_.rows[1] = <<>> THEN NoReturn
         ELSE rows_filter(call_.rows[1], call_.columns, call_.timestamp)
    ELSE IF call_.op = "cells"
    THEN cells_filter(call_.column[1], call_.versions, call_.timestamp)
    ELSE IF call_.op = "scan"
    THEN scan_filter(call_.row_start, call_.row_stop, call_.row_prefix,
                     call_.columns, call_.filter, call_.timestamp,
                     call_.limit, call_.unsupported)
    ELSE ret_

CallAgain ==
    /\ call # NoArgs
    /\ ret_again = None
    /\ ret_again' = Some(call_again(call, ret))
    /\ UNCHANGED <<call, ret, read_request, rows_data, rows_result>>
    /\ UNCHANGED <<succVars, gcVars, opVars, waitVars, counterVars>>

(***************************************************************************)
(* Garbage-collection rules and _gc_rule_to_dict.                          *)
(* A rule is a record tagged with the name of its class; a Python dict is  *)
(* the record [dict |-> items], items being a function from keys to        *)
(* values, so that the empty dict differs from None.                       *)
(***************************************************************************)
MaxGcRules == 3      \* longest rules list of a composite rule
MaxAgeDays == 1      \* largest days field of a max_age timedelta

\* Seconds in a day, as datetime.timedelta counts them.
SecondsPerDay == 86400

TimeDelta(days, seconds) == [days |-> days, seconds |-> seconds]

total_seconds(delta) == delta.days * SecondsPerDay + delta.seconds

NoRule == [kind |-> "None"]

MaxAgeGCRule(max_age) == [kind |-> "MaxAgeGCRule", max_age |-> max_age]

MaxVersionsGCRule(max_num_versions) ==
    [kind |-> "MaxVersionsGCRule", max_num_versions |-> max_num_versions]

GCRuleUnion(rules) == [kind |-> "GCRuleUnion", rules |-> rules]

GCRuleIntersection(rules) == [kind |-> "GCRuleIntersection", rules |-> rules]

SIMPLE_GC_RULES == {"MaxAgeGCRule", "MaxVersionsGCRule"}

Dict(items) == [dict |-> items]

IsDict(value) == "dict" \in DOMAIN value

\* key, = d.keys(): the only key of a one-key dict.
only_key(d) == CHOOSE key \in DOMAIN d.dict : TRUE

\* A variant that converts an intersection to the dict of its first rule.
RECURSIVE gc_rule_to_dict_first_rule(_)
gc_rule_to_dict_first_rule(rule) ==
    IF rule.kind = "None" THEN Dict(<<>>)
    ELSE IF rule.kind = "MaxAgeGCRule"
    THEN Dict("time_to_live" :> total_seconds(rule.max_age))
    ELSE IF rule.kind = "MaxVersionsGCRule"
    THEN Dict("max_versions" :> rule.max_num_versions)
    ELSE IF /\ rule.kind = "GCRuleIntersection"
            /\ Len(rule.rules) = 2
            /\ rule.rules[1].kind \in SIMPLE_GC_RULES
            /\ rule.rules[2].kind \in SIMPLE_GC_RULES
    THEN LET rule1 == gc_rule_to_dict_first_rule(rule.rules[1])
             rule2 == gc_rule_to_dict_first_rule(rule.rules[2])
         IN  IF only_key(rule1) # only_key(rule2) THEN rule1 ELSE rule
    ELSE rule

RECURSIVE gc_rule_to_dict(_)
gc_rule_to_dict(rule) ==
    IF rule.kind = "None" THEN Dict(<<>>)
    ELSE IF rule.kind = "MaxAgeGCRule"
    THEN Dict("time_to_live" :> total_seconds(rule.max_age))
    ELSE IF rule.kind = "MaxVersionsGCRule"
    THEN Dict("max_versions" :> rule.max_num_versions)
    ELSE IF /\ rule.kind = "GCRuleIntersection"
            /\ Len(rule.rules) = 2
            /\ rule.rules[1].kind \in SIMPLE_GC_RULES
            /\ rule.rules[2].kind \in SIMPLE_GC_RULES
    THEN LET rule1 == gc_rule_to_dict(rule.rules[1])
             rule2 == gc_rule_to_dict(rule.rules[2])
             key1 == only_key(rule1)
             key2 == only_key(rule2)
         IN  IF key1 # key2
             THEN Dict((key1 :> rule1.dict[key1]) @@ (key2 :> rule2.dict[key2]))
             ELSE rule
    ELSE rule

\* The rules _gc_rule_to_dict is applied to: no rule, the simple rules, the
\* unions and intersections of up to MaxGcRules simple rules, and the
\* two-member intersections that hold a composite rule.
AgeArgs == {TimeDelta(days, seconds) : days \in 0..MaxAgeDays, seconds \in {0, 30}}

SimpleRules ==
    {MaxAgeGCRule(age) : age \in AgeArgs}
        \cup {MaxVersionsGCRule(n) : n \in 1..MaxVersions}

FlatRules ==
    {GCRuleUnion(rules) : rules \in SeqsUpTo(SimpleRules, MaxGcRules)}
        \cup {GCRuleIntersection(rules) : rules \in SeqsUpTo(SimpleRules, MaxGcRules)}

SmallComposites == {rule \in FlatRules : Len(rule.rules) <= 1}

NestedRules ==
    {GCRuleIntersection(<<rule, inner>>) : rule \in SimpleRules, inner \in SmallComposites}
        \cup {GCRuleIntersection(<<inner, rule>>) : rule \in SimpleRules, inner \in SmallComposites}

GcRuleArgs == {NoRule} \cup SimpleRules \cup FlatRules \cup NestedRules

GcIdle ==
    /\ gc_rule = NoRule
    /\ gc_pc = "idle"
    /\ gc_result = NoRule

GcInit ==
    /\ gc_rule \in GcRuleArgs
    /\ gc_pc = "call"
    /\ gc_result = NoRule

CallGcRuleToDict ==
    /\ gc_pc = "call"
    /\ gc_pc' = "done"
    /\ gc_result' = gc_rule_to_dict(gc_rule)
    /\ UNCHANGED <<gc_rule, succVars, filterVars, opVars, waitVars, counterVars>>

(***************************************************************************)
(* Operation.finished (cluster.py) and the loop that waits for a           *)
(* long-running operation (_wait_for_operation).                           *)
(* A finished() call is three steps: the test of _complete, the            *)
(* GetOperation request and the handling of its response.  The wait loop   *)
(* records every get_operation call and every sleep in wait_trace.         *)
(***************************************************************************)
MaxFinishedCalls == 3    \* most finished() calls on the one Operation
MaxRetries == 3          \* largest retry cap of the wait loop
MaxBaseWait == 2         \* largest base wait of the wait loop (seconds)

\* Cluster.timeout_seconds of the cluster that owns the operation.
ClusterTimeout == 10

\* Threads that may call finished() on the one Operation.
Callers == {1, 2}

\* What a status query gives: an Operation message that is done or not, or
\* the failure of the request.
Responses == {"done", "not_done", "error"}

\* timeout_seconds arguments of finished() and of the wait loop.
FinishedTimeoutArgs == Optional({0, 7})

WaitTimeoutArgs == Optional({199})

\* timeout_seconds or self._cluster.timeout_seconds
timeout_or_default(timeout_seconds) ==
    IF timeout_seconds = None \/ timeout_seconds = Some(0) THEN ClusterTimeout
    ELSE timeout_seconds[1]

OperationInit ==
    /\ op_complete = FALSE
    /\ get_operation_calls = 0
    /\ finished_calls = 0
    /\ fin_pc = [caller \in Callers |-> IF caller = 1 THEN "idle" ELSE "off"]
    /\ fin_given = [caller \in Callers |-> None]
    /\ fin_timeout = [caller \in Callers |-> 0]
    /\ fin_response = [caller \in Callers |-> ""]
    /\ fin_return = [caller \in Callers |-> ""]

\* The operation as constructed, with two callers about to call finished()
\* on it at the same time.
OperationRaceInit ==
    /\ op_complete = FALSE
    /\ get_operation_calls = 0
    /\ finished_calls = 0
    /\ fin_pc = [caller \in Callers |-> "idle"]
    /\ fin_given = [caller \in Callers |-> None]
    /\ fin_timeout = [caller \in Callers |-> 0]
    /\ fin_response = [caller \in Callers |-> ""]
    /\ fin_return = [caller \in Callers |-> ""]

OperationIdle ==
    /\ op_complete = FALSE
    /\ get_operation_calls = 0
    /\ finished_calls = 0
    /\ fin_pc = [caller \in Callers |-> "off"]
    /\ fin_given = [caller \in Callers |-> None]
    /\ fin_timeout = [caller \in Callers |-> 0]
    /\ fin_response = [caller \in Callers |-> ""]
    /\ fin_return = [caller \in Callers |-> ""]

\* A variant that does not test _complete.
FinishedCallNoCheck(caller) ==
    /\ fin_pc[caller] = "idle"
    /\ finished_calls < MaxFinishedCalls
    /\ finished_calls' = finished_calls + 1
    /\ fin_response' = [fin_response EXCEPT ![caller] = ""]
    /\ \E timeout_seconds \in FinishedTimeoutArgs :
           /\ fin_given' = [fin_given EXCEPT ![caller] = timeout_seconds]
           /\ fin_return' = [fin_return EXCEPT ![caller] = ""]
           /\ fin_pc' = [fin_pc EXCEPT ![caller] = "request"]
           /\ fin_timeout' =
                  [fin_timeout EXCEPT ![caller] = timeout_or_default(timeout_seconds)]
    /\ UNCHANGED <<op_complete, get_operation_calls>>
    /\ UNCHANGED <<succVars, filterVars, gcVars, waitVars, counterVars>>

\* Lines 163-169: finished() begins; raises ValueError on a complete
\* operation, else prepares the request.
FinishedCall(caller) ==
    /\ fin_pc[caller] = "idle"
    /\ finished_calls < MaxFinishedCalls
    /\ finished_calls' = finished_calls + 1
    /\ fin_response' = [fin_response EXCEPT ![caller] = ""]
    /\ \E timeout_seconds \in FinishedTimeoutArgs :
           /\ fin_given' = [fin_given EXCEPT ![caller] = timeout_seconds]
           /\ IF op_complete
              THEN /\ fin_return' = [fin_return EXCEPT ![caller] = "ValueError"]
                   /\ UNCHANGED <<fin_pc, fin_timeout>>
              ELSE /\ fin_return' = [fin_return EXCEPT ![caller] = ""]
                   /\ fin_pc' = [fin_pc EXCEPT ![caller] = "request"]
                   /\ fin_timeout' =
                          [fin_timeout EXCEPT ![caller] = timeout_or_default(timeout_seconds)]
    /\ UNCHANGED <<op_complete, get_operation_calls>>
    /\ UNCHANGED <<succVars, filterVars, gcVars, waitVars, counterVars>>

\* A variant in which a failed request is reported as an operation that is
\* not done.
FinishedGetOperationSwallowsError(caller) ==
    /\ fin_pc[caller] = "request"
    /\ get_operation_calls' = get_operation_calls + 1
    /\ \E response \in Responses :
           /\ fin_response' = [fin_response EXCEPT ![caller] = response]
           /\ fin_pc' = [fin_pc EXCEPT ![caller] = "response"]
           /\ UNCHANGED fin_return
    /\ UNCHANGED <<op_complete, finished_calls, fin_given, fin_timeout>>
    /\ UNCHANGED <<succVars, filterVars, gcVars, waitVars, counterVars>>

\* Lines 171-172: the GetOperation request; its failure ends the call with
\* the exception of the request.
FinishedGetOperation(caller) ==
    /\ fin_pc[caller] = "request"
    /\ get_operation_calls' = get_operation_calls + 1
    /\ \E response \in Responses :
           /\ fin_response' = [fin_response EXCEPT ![caller] = response]
           /\ IF response = "error"
              THEN /\ fin_pc' = [fin_pc EXCEPT ![caller] = "idle"]
                   /\ fin_return' = [fin_return EXCEPT ![caller] = "RpcError"]
              ELSE /\ fin_pc' = [fin_pc EXCEPT ![caller] = "response"]
                   /\ UNCHANGED fin_return
    /\ UNCHANGED <<op_complete, finished_calls, fin_given, fin_timeout>>
    /\ UNCHANGED <<succVars, filterVars, gcVars, waitVars, counterVars>>

\* A variant that gives True whatever the response.
FinishedReturnAlwaysTrue(caller) ==
    /\ fin_pc[caller] = "response"
    /\ fin_pc' = [fin_pc EXCEPT ![caller] = "idle"]
    /\ op_complete' = (op_complete \/ fin_response[caller] = "done")
    /\ fin_return' = [fin_return EXCEPT ![caller] = "True"]
    /\ UNCHANGED <<get_operation_calls, finished_calls, fin_given, fin_timeout, fin_response>>
    /\ UNCHANGED <<succVars, filterVars, gcVars, waitVars, counterVars>>

\* A variant that marks the operation complete whatever the response.
FinishedReturnAlwaysComplete(caller) ==
    /\ fin_pc[caller] = "response"
    /\ fin_pc' = [fin_pc EXCEPT ![caller] = "idle"]
    /\ op_complete' = TRUE
    /\ fin_return' = [fin_return EXCEPT ![caller] = "True"]
    /\ UNCHANGED <<get_operation_calls, finished_calls, fin_given, fin_timeout, fin_response>>
    /\ UNCHANGED <<succVars, filterVars, gcVars, waitVars, counterVars>>

\* Lines 174-178: a done operation sets _complete and gives True, any other
\* gives False.
FinishedReturn(caller) ==
    /\ fin_pc[caller] = "response"
    /\ fin_pc' = [fin_pc EXCEPT ![caller] = "idle"]
    /\ IF fin_response[caller] = "done"
       THEN /\ op_complete' = TRUE
            /\ fin_return' = [fin_return EXCEPT ![caller] = "True"]
       ELSE /\ UNCHANGED op_complete
            /\ fin_return' = [fin_return EXCEPT ![caller] = "False"]
    /\ UNCHANGED <<get_operation_calls, finished_calls, fin_given, fin_timeout, fin_response>>
    /\ UNCHANGED <<succVars, filterVars, gcVars, waitVars, counterVars>>

(***************************************************************************)
(* The wait loop: query, return a done operation, else sleep for the base  *)
(* wait doubled once per sleep taken, until the retry cap.                 *)
(***************************************************************************)
QueryEvent(status, timeout_seconds) ==
    [event |-> "get_operation", status |-> status, seconds |-> 0,
     timeout_seconds |-> timeout_seconds]

SleepEvent(seconds) ==
    [event |-> "sleep", status |-> "", seconds |-> seconds,
     timeout_seconds |-> None]

NoWaitArgs == [max_retries |-> 0, base_wait |-> 0, timeout_seconds |-> None]

\* A variant that sleeps for the base wait every time.
wait_seconds_constant(base_wait, waits) == base_wait

\* The sleep after so many sleeps: the base wait doubled once per sleep.
wait_seconds(base_wait, waits) == base_wait * 2 ^ waits

\* A variant that stops one round before the retry cap.
wait_again_one_less(waits, max_retries) == waits + 1 < max_retries

\* A variant that allows one round more than the retry cap.
wait_again_one_more(waits, max_retries) == waits <= max_retries

\* Whether the loop queries again after so many sleeps.
wait_again(waits, max_retries) == waits < max_retries

WaitIdle ==
    /\ wait_pc = "idle"
    /\ wait_args = NoWaitArgs
    /\ wait_count = 0
    /\ wait_trace = <<>>
    /\ wait_result = None
    /\ wait_error = ""

\* _wait_for_operation is called.
WaitForOperation ==
    /\ wait_pc = "idle"
    /\ \E max_retries \in 1..MaxRetries, base_wait \in 1..MaxBaseWait,
          timeout_seconds \in WaitTimeoutArgs :
           wait_args' = [max_retries |-> max_retries, base_wait |-> base_wait,
                         timeout_seconds |-> timeout_seconds]
    /\ wait_pc' = "query"
    /\ UNCHANGED <<wait_count, wait_trace, wait_result, wait_error>>
    /\ UNCHANGED <<succVars, filterVars, gcVars, opVars, counterVars>>

\* A variant that raises the timeout error right after the not-done query
\* that used up the retries, without the sleep.
WaitGetOperationTimesOutAtOnce ==
    /\ wait_pc = "query"
    /\ \E status \in Responses :
           /\ wait_trace' =
                  Append(wait_trace, QueryEvent(status, wait_args.timeout_seconds))
           /\ IF status = "error"
              THEN /\ wait_pc' = "Failed"
                   /\ wait_error' = "RpcError"
                   /\ UNCHANGED wait_result
              ELSE IF status = "done"
              THEN /\ wait_pc' = "Done"
                   /\ wait_result' = Some(Len(wait_trace) + 1)
                   /\ UNCHANGED wait_error
              ELSE IF wait_again(wait_count + 1, wait_args.max_retries)
              THEN /\ wait_pc' = "sleep"
                   /\ UNCHANGED <<wait_result, wait_error>>
              ELSE /\ wait_pc' = "TimedOut"
                   /\ wait_error' = "ValueError"
                   /\ UNCHANGED wait_result
    /\ UNCHANGED <<wait_args, wait_count>>
    /\ UNCHANGED <<succVars, filterVars, gcVars, opVars, counterVars>>

\* One status query of the loop.  A done operation is returned at once,
\* the failure of the request is raised as it is, and an operation that is
\* not done leads to the sleep.  wait_result is the place in wait_trace of
\* the operation message returned.
WaitGetOperation ==
    /\ wait_pc = "query"
    /\ \E status \in Responses :
           /\ wait_trace' =
                  Append(wait_trace, QueryEvent(status, wait_args.timeout_seconds))
           /\ IF status = "error"
              THEN /\ wait_pc' = "Failed"
                   /\ wait_error' = "RpcError"
                   /\ UNCHANGED wait_result
              ELSE IF status = "done"
              THEN /\ wait_pc' = "Done"
                   /\ wait_result' = Some(Len(wait_trace) + 1)
                   /\ UNCHANGED wait_error
              ELSE /\ wait_pc' = "sleep"
                   /\ UNCHANGED <<wait_result, wait_error>>
    /\ UNCHANGED <<wait_args, wait_count>>
    /\ UNCHANGED <<succVars, filterVars, gcVars, opVars, counterVars>>

\* The sleep after an operation that is not done, and the test of the
\* retry cap: the loop queries again or raises ValueError.
WaitSleep ==
    /\ wait_pc = "sleep"
    /\ wait_trace' =
           Append(wait_trace, SleepEvent(wait_seconds(wait_args.base_wait, wait_count)))
    /\ wait_count' = wait_count + 1
    /\ IF wait_again(wait_count + 1, wait_args.max_retries)
       THEN /\ wait_pc' = "query"
            /\ UNCHANGED wait_error
       ELSE /\ wait_pc' = "TimedOut"
            /\ wait_error' = "ValueError"
    /\ UNCHANGED <<wait_args, wait_result>>
    /\ UNCHANGED <<succVars, filterVars, gcVars, opVars, counterVars>>

(***************************************************************************)
(* Counters: counter_inc sends an increment of the column to the server    *)
(* and unpacks the one modified cell it gets back; counter_dec and         *)
(* counter_get are counter_inc with the value negated and with 0.          *)
(***************************************************************************)
MaxCounterCalls == 3   \* counter calls in a row
MaxDelta == 2          \* largest value given to counter_inc and counter_dec

\* The numbers of cells a response may hold for the column.
CellsReturned == {0, 1, 2}

\* struct.Struct('>q').unpack: eight bytes, big-endian, two's complement.
RECURSIVE unpack_from(_, _, _)
unpack_from(bytes_value, index, high) ==
    IF index > Len(bytes_value) THEN high
    ELSE unpack_from(bytes_value, index + 1, high * 256 + bytes_value[index])

UNPACK_I64(bytes_value) ==
    unpack_from(bytes_value, 2,
                IF bytes_value[1] >= 128 THEN bytes_value[1] - 256
                ELSE bytes_value[1])

\* The server's encoding of a counter: the same eight bytes.
RECURSIVE pack_from(_, _)
pack_from(int_value, width) ==
    IF width = 0 THEN <<>>
    ELSE Append(pack_from(int_value \div 256, width - 1), int_value % 256)

PACK_I64(int_value) == pack_from(int_value, 8)

\* The number a stored counter cell holds; a column that does not exist
\* counts from 0.
StoredValue(cell) == IF cell = None THEN 0 ELSE UNPACK_I64(cell[1])

\* The server's side of increment_cell_value and commit_modifications: the
\* amount is added to the stored number.
IncrementedCell(cell, amount) == Some(PACK_I64(StoredValue(cell) + amount))

\* The cells of the column in the response: pairs of value and timestamp.
ModifiedCells(cell, cells) == [i \in 1..cells |-> <<cell[1], 0>>]

\* counter_inc, lines 888-893: exactly one modified cell, unpacked.
counter_inc_result(column_cells) ==
    IF Len(column_cells) # 1
    THEN [raised |-> "ValueError", value |-> None]
    ELSE [raised |-> "", value |-> Some(UNPACK_I64(column_cells[1][1]))]

\* A variant of counter_dec that passes the value on as it is.
counter_dec_amount_as_given(value) == value

\* counter_dec, line 916: the value negated.
counter_dec_amount(value) == 0 - value

CounterIdle ==
    /\ counter_cell = None
    /\ counter_response = <<>>
    /\ counter_log = <<>>

\* One counter_inc call with the given amount, made under the name op
\* with the argument value: the increment is committed, the response
\* brings so many cells of the column, and the call returns or raises.
CounterIncrement(op, value, amount) ==
    /\ Len(counter_log) < MaxCounterCalls
    /\ \E cells \in CellsReturned :
           LET cell == IncrementedCell(counter_cell, amount)
               column_cells == ModifiedCells(cell, cells)
               outcome == counter_inc_result(column_cells)
           IN  /\ counter_cell' = cell
               /\ counter_response' = column_cells
               /\ counter_log' =
                      Append(counter_log,
                             [op |-> op, value |-> value,
                              before |-> StoredValue(counter_cell),
                              after |-> StoredValue(cell),
                              raised |-> outcome.raised,
                              result |-> outcome.value])
    /\ UNCHANGED <<succVars, filterVars, gcVars, opVars, waitVars>>

CounterInc ==
    \E value \in (0 - MaxDelta)..MaxDelta :
        CounterIncrement("counter_inc", value, value)

CounterDec ==
    \E value \in (0 - MaxDelta)..MaxDelta :
        CounterIncrement("counter_dec", value, counter_dec_amount(value))

CounterGet == CounterIncrement("counter_get", 0, 0)

(***************************************************************************)
(* Specifications.                                                         *)
(***************************************************************************)
\* _string_successor applied to every byte string within the bounds.
SuccessorInit ==
    SuccInit /\ FilterIdle /\ GcIdle /\ OperationIdle /\ WaitIdle /\ CounterIdle

SuccessorNext == CallStringSuccessor

SpecSuccessor == SuccessorInit /\ [][SuccessorNext]_vars

\* One call of a filter helper or of a Table read method.
FilterInit ==
    SuccIdle /\ FilterIdle /\ GcIdle /\ OperationIdle /\ WaitIdle /\ CounterIdle

FilterNext ==
    \/ CallConvertToTimeRange
    \/ CallFilterChainHelper
    \/ CallColumnsFilterHelper
    \/ CallRowKeysFilterHelper
    \/ TableRow
    \/ TableRows
    \/ TableCells
    \/ TableScan
    \/ CallAgain

SpecFilter == FilterInit /\ [][FilterNext]_vars

\* _gc_rule_to_dict applied to every rule within the bounds.
GcRuleInit ==
    SuccIdle /\ FilterIdle /\ GcInit /\ OperationIdle /\ WaitIdle /\ CounterIdle

GcRuleNext == CallGcRuleToDict

SpecGcRule == GcRuleInit /\ [][GcRuleNext]_vars

\* finished() calls by one caller on one Operation, and one run of the wait
\* loop.
PollInit ==
    SuccIdle /\ FilterIdle /\ GcIdle /\ OperationInit /\ WaitIdle /\ CounterIdle

PollNext ==
    \/ \E caller \in Callers : FinishedCall(caller)
    \/ \E caller \in Callers : FinishedGetOperation(caller)
    \/ \E caller \in Callers : FinishedReturn(caller)
    \/ WaitForOperation
    \/ WaitGetOperation
    \/ WaitSleep

SpecPoll == PollInit /\ [][PollNext]_vars

\* Two callers of finished() on one operation; their steps interleave at
\* the test of _complete, the request and the write of _complete.
PollRaceInit ==
    SuccIdle /\ FilterIdle /\ GcIdle /\ OperationRaceInit /\ WaitIdle /\ CounterIdle

PollRaceNext ==
    \/ \E caller \in Callers : FinishedCall(caller)
    \/ \E caller \in Callers : FinishedGetOperation(caller)
    \/ \E caller \in Callers : FinishedReturn(caller)

SpecPollRace == PollRaceInit /\ [][PollRaceNext]_vars

\* Counter calls on one column that does not exist at first.
CounterInit ==
    SuccIdle /\ FilterIdle /\ GcIdle /\ OperationIdle /\ WaitIdle /\ CounterIdle

CounterNext == CounterInc \/ CounterDec \/ CounterGet

SpecCounter == CounterInit /\ [][CounterNext]_vars

\* The wait loop blocks its caller: a status query that can be made is made
\* and a sleep that is due ends.
SpecPollFair ==
    SpecPoll /\ WF_vars(WaitGetOperation) /\ WF_vars(WaitSleep)

(***************************************************************************)
(* Byte-string order, as Python compares bytes.                            *)
(***************************************************************************)
BytesLess(a, b) ==
    LET n == IF Len(a) < Len(b) THEN Len(a) ELSE Len(b)
        differ == {i \in 1..n : a[i] # b[i]}
    IN  IF differ = {} THEN Len(a) < Len(b)
        ELSE LET first == CHOOSE i \in differ : \A j \in differ : i <= j
             IN  a[first] < b[first]

\* Byte strings a successor is compared against: the sampled bytes and the
\* bytes one above them.
ProbeBytes == ByteSample \cup {b + 1 : b \in ByteSample \ {MaxByte}}
Probes == SeqsUpTo(ProbeBytes, MaxProbe)
Exts == SeqsUpTo(ByteSample, MaxExt)

AllMaxByte(s) == \A i \in 1..Len(s) : s[i] = MaxByte

\* C1: for a non-empty byte string p that is not all 0xff, the result of
\* _string_successor(p) is above every string that has p as a prefix, and
\* no smaller string is: every string below the result is at or below some
\* string that has p as a prefix.
C1_SuccessorIsLeastUpperBound ==
    (succ_pc = "done" /\ str_val # <<>> /\ ~AllMaxByte(str_val)) =>
        /\ \A e \in Exts : BytesLess(str_val \o e, succ_result)
        /\ \A q \in Probes :
               BytesLess(q, succ_result) =>
                   \E e \in Exts : ~BytesLess(str_val \o e, q)

\* A successor that dropped trailing 0xff bytes.
C1_Witness ==
    /\ succ_pc = "done"
    /\ str_val = <<97, MaxByte>>
    /\ succ_result = <<98>>

\* C2: _string_successor returns for every byte string: the empty string
\* when the input is empty or all 0xff, otherwise the input cut after its
\* last byte below 0xff with that byte one higher.
C2_SuccessorIncrementsAndTruncates ==
    /\ succ_pc = "call" => ENABLED CallStringSuccessor
    /\ succ_pc = "done" =>
           IF AllMaxByte(str_val) THEN succ_result = <<>>
           ELSE LET last == CHOOSE i \in 1..Len(str_val) :
                                /\ str_val[i] < MaxByte
                                /\ \A j \in (i + 1)..Len(str_val) :
                                       str_val[j] = MaxByte
                IN  /\ Len(succ_result) = last
                    /\ \A j \in 1..(last - 1) : succ_result[j] = str_val[j]
                    /\ succ_result[last] = str_val[last] + 1
    /\ string_successor(<<97, 98, 99>>) = <<97, 98, 100>>
    /\ string_successor(<<97, 98, 255>>) = <<97, 99>>
    /\ string_successor(<<255, 255>>) = <<>>

C2_Witness ==
    /\ succ_pc = "done"
    /\ str_val = <<MaxByte, MaxByte>>
    /\ succ_result = <<>>

(***************************************************************************)
(* What the claims expect of a column name and of the filters built.       *)
(***************************************************************************)
Colons(column) == {i \in 1..Len(column) : column[i] = ":"}

NamesOnlyFamily(column) ==
    Colons(column) = {} \/ Colons(column) = {Len(column)}

ExpectedFamily(column) ==
    IF Colons(column) = {} THEN column
    ELSE SubSeq(column, 1, (CHOOSE i \in Colons(column) : TRUE) - 1)

ExpectedQualifier(column) ==
    SubSeq(column, (CHOOSE i \in Colons(column) : TRUE) + 1, Len(column))

ExpectedSelector(column) ==
    IF NamesOnlyFamily(column)
    THEN FamilyNameRegexFilter(ExpectedFamily(column))
    ELSE RowFilterChain(<<FamilyNameRegexFilter(ExpectedFamily(column)),
                          ColumnQualifierRegexFilter(ExpectedQualifier(column))>>)

ExpectedColumns(columns) ==
    IF Len(columns) = 1 THEN ExpectedSelector(columns[1])
    ELSE RowFilterUnion([i \in 1..Len(columns) |->
                            ExpectedSelector(columns[i])])

ExpectedRowKeys(row_keys) ==
    IF Len(row_keys) = 1 THEN RowKeyRegexFilter(row_keys[1])
    ELSE RowFilterUnion([i \in 1..Len(row_keys) |->
                            RowKeyRegexFilter(row_keys[i])])

Composites == {"RowFilterChain", "RowFilterUnion"}

\* Two filters are the same: the same kind, and the same value (a leaf) or
\* the same children in the same order (a chain, a union).
RECURSIVE SameFilter(_, _)
SameFilter(f, g) ==
    /\ f.kind = g.kind
    /\ IF f.kind \in Composites
       THEN /\ Len(f.filters) = Len(g.filters)
            /\ \A i \in 1..Len(f.filters) :
                   SameFilter(f.filters[i], g.filters[i])
       ELSE f = g

\* The call returned a filter.
Built == ret.raised = "" /\ ret.value # NoFilter

\* C3: with no clause at all _filter_chain_helper (no column, no versions,
\* no timestamp, filters absent or empty) raises ValueError and returns no
\* filter, and so does _columns_filter_helper with no columns.
C3_NoClausesRaises ==
    /\ ( /\ call.op = "_filter_chain_helper"
         /\ call.column = None /\ call.versions = None
         /\ call.timestamp = None
         /\ (call.filters = None \/ call.filters = Some(<<>>)) )
       => (ret.raised = "ValueError" /\ ret.value = NoFilter)
    /\ (call.op = "_columns_filter_helper" /\ call.columns = Some(<<>>))
       => (ret.raised = "ValueError" /\ ret.value = NoFilter)

C3_Witness ==
    /\ call.op = "_filter_chain_helper"
    /\ call.column = None /\ call.versions = None /\ call.timestamp = None
    /\ call.filters = Some(<<>>)
    /\ ret.raised = "ValueError"

\* C4: _columns_filter_helper turns a family-only column into one
\* family-match leaf and a family:qualifier column into a chain of
\* [family-match, qualifier-match]; one column gives that predicate itself,
\* n > 1 columns a union of the n predicates in the order given.
C4_ColumnsFilter ==
    ( /\ call.op = "_columns_filter_helper"
      /\ Len(call.columns[1]) >= 1 )
    => LET columns == call.columns[1]
           n == Len(columns)
       IN  /\ ret.raised = ""
           /\ IF n = 1 THEN SameFilter(ret.value, ExpectedSelector(columns[1]))
              ELSE /\ ret.value.kind = "RowFilterUnion"
                   /\ Len(ret.value.filters) = n
                   /\ \A i \in 1..n :
                          SameFilter(ret.value.filters[i],
                                     ExpectedSelector(columns[i]))

\* Three columns, a union of three predicates, one of them a chain.
C4_Witness ==
    /\ call.op = "_columns_filter_helper"
    /\ call.columns = Some(<<<<"f", ":", "c">>, <<"g", ":">>, <<"f">>>>)
    /\ ret.value.kind = "RowFilterUnion"
    /\ Len(ret.value.filters) = 3
    /\ ret.value.filters[1].kind = "RowFilterChain"

\* C5: _row_keys_filter_helper gives one row-key-match leaf per key in the
\* order given: a union of them for more than one key, the leaf itself for
\* one key, ValueError for none.
C5_RowKeysFilter ==
    call.op = "_row_keys_filter_helper" =>
        LET row_keys == call.rows[1]
            n == Len(row_keys)
        IN  IF n = 0 THEN ret.raised = "ValueError" /\ ret.value = NoFilter
            ELSE /\ ret.raised = ""
                 /\ IF n = 1
                    THEN SameFilter(ret.value, RowKeyRegexFilter(row_keys[1]))
                    ELSE /\ ret.value.kind = "RowFilterUnion"
                         /\ Len(ret.value.filters) = n
                         /\ \A i \in 1..n :
                                SameFilter(ret.value.filters[i],
                                           RowKeyRegexFilter(row_keys[i]))

C5_Witness ==
    /\ call.op = "_row_keys_filter_helper"
    /\ call.rows = Some(<<<<98>>, <<97>>>>)
    /\ ret.value = RowFilterUnion(<<RowKeyRegexFilter(<<98>>),
                                    RowKeyRegexFilter(<<97>>)>>)

\* The clauses a Table.row, Table.rows or Table.scan call brings, in the
\* order the claims give them.
ClauseRoles ==
    (IF call.op = "scan" /\ call.filter # None THEN <<"given">> ELSE <<>>)
    \o (IF call.columns # None THEN <<"columns">> ELSE <<>>)
    \o (IF call.op = "rows" THEN <<"rows">> ELSE <<>>)
    \o <<"versions">>
    \o (IF call.timestamp # None THEN <<"timestamp">> ELSE <<>>)

IsClause(f, role) ==
    CASE role = "given" -> SameFilter(f, call.filter[1])
      [] role = "columns" -> SameFilter(f, ExpectedColumns(call.columns[1]))
      [] role = "rows" -> SameFilter(f, ExpectedRowKeys(call.rows[1]))
      [] role = "versions" -> SameFilter(f, CellsColumnLimitFilter(1))
      [] role = "timestamp" -> f.kind = "TimestampRangeFilter"

IsChainOf(f, roles) ==
    /\ f.kind = "RowFilterChain"
    /\ Len(f.filters) = Len(roles)
    /\ \A i \in 1..Len(roles) : IsClause(f.filters[i], roles[i])

\* C6 as stated: the filter Table.row, Table.rows and Table.scan build is
\* always a chain of the clauses present, in the order given filter, column
\* predicate, row-key predicate, version cap 1, timestamp leaf.
C6_AlwaysAChain ==
    (call.op \in {"row", "rows", "scan"} /\ Built) =>
        IsChainOf(ret.value, ClauseRoles)

\* C6, amended: the filter Table.row, Table.rows and Table.scan build is a
\* chain of the clauses present, in the order given filter, column
\* predicate, row-key predicate, version cap 1, timestamp leaf; when the
\* version cap is the only clause the filter is that leaf itself.
C6_ChainInFixedOrder ==
    (call.op \in {"row", "rows", "scan"} /\ Built) =>
        IF Len(ClauseRoles) = 1
        THEN SameFilter(ret.value, CellsColumnLimitFilter(1))
        ELSE IsChainOf(ret.value, ClauseRoles)

\* A Table.rows call with columns and a timestamp: four clauses.
C6_Witness ==
    /\ call.op = "rows"
    /\ call.columns # None /\ call.timestamp # None
    /\ Built
    /\ ret.value.kind = "RowFilterChain"
    /\ Len(ret.value.filters) = 4
    /\ ret.value.filters[2].kind = "RowFilterUnion"

\* C7: for Table.cells with a column fam:col the filter is a chain of the
\* family-match leaf, the qualifier-match leaf, the version cap when
\* versions is given and the timestamp leaf when timestamp is given, in
\* that order, with no other child and no chain among the children.
C7_CellsChain ==
    (call.op = "cells" /\ Cardinality(Colons(call.column[1])) = 1) =>
        LET column == call.column[1]
            nv == IF call.versions # None THEN 1 ELSE 0
            nt == IF call.timestamp # None THEN 1 ELSE 0
        IN  /\ ret.raised = ""
            /\ ret.value.kind = "RowFilterChain"
            /\ Len(ret.value.filters) = 2 + nv + nt
            /\ SameFilter(ret.value.filters[1],
                          FamilyNameRegexFilter(ExpectedFamily(column)))
            /\ SameFilter(ret.value.filters[2],
                          ColumnQualifierRegexFilter(ExpectedQualifier(column)))
            /\ nv = 1 => SameFilter(ret.value.filters[3],
                                    CellsColumnLimitFilter(call.versions[1]))
            /\ nt = 1 => ret.value.filters[2 + nv + nt].kind =
                             "TimestampRangeFilter"
            /\ \A i \in 1..Len(ret.value.filters) :
                   ret.value.filters[i].kind # "RowFilterChain"

C7_Witness ==
    /\ call.op = "cells"
    /\ call.column = Some(<<"f", ":", "c">>)
    /\ call.versions = Some(2) /\ call.timestamp = Some(1)
    /\ ret.value.kind = "RowFilterChain"
    /\ Len(ret.value.filters) = 4

RECURSIVE NoSmallComposite(_)
NoSmallComposite(f) ==
    f.kind \in Composites =>
        /\ Len(f.filters) >= 2
        /\ \A i \in 1..Len(f.filters) : NoSmallComposite(f.filters[i])

\* C8: a helper given exactly one clause returns that clause itself, and
\* no filter a helper or a Table read method builds holds a chain or a
\* union of fewer than two children.
C8_NoTrivialComposite ==
    /\ (call.op # "_convert_to_time_range" /\ Built) =>
           NoSmallComposite(ret.value)
    /\ (call.op = "_row_keys_filter_helper" /\ Len(call.rows[1]) = 1) =>
           SameFilter(ret.value, RowKeyRegexFilter(call.rows[1][1]))
    /\ (call.op = "_columns_filter_helper" /\ Len(call.columns[1]) = 1) =>
           /\ ret.value.kind # "RowFilterUnion"
           /\ SameFilter(ret.value, ExpectedSelector(call.columns[1][1]))
    /\ ( /\ call.op = "_filter_chain_helper"
         /\ call.column = None
         /\ (IF call.filters = None THEN 0 ELSE Len(call.filters[1]))
            + Len(call.versions) + Len(call.timestamp) = 1 ) =>
           /\ ret.raised = ""
           /\ IF call.versions # None
              THEN SameFilter(ret.value,
                              CellsColumnLimitFilter(call.versions[1]))
              ELSE IF call.timestamp # None
              THEN ret.value.kind = "TimestampRangeFilter"
              ELSE SameFilter(ret.value, call.filters[1][1])

\* One row key, returned as its leaf.
C8_Witness ==
    /\ call.op = "_row_keys_filter_helper"
    /\ call.rows = Some(<<<<97>>>>)
    /\ ret.value = RowKeyRegexFilter(<<97>>)

\* The timestamp leaves at the top of a filter.
TimestampLeaves(f) ==
    IF f.kind = "TimestampRangeFilter" THEN <<f>>
    ELSE IF f.kind = "RowFilterChain"
    THEN SelectSeq(f.filters, LAMBDA g : g.kind = "TimestampRangeFilter")
    ELSE <<>>

\* A range with no start whose end is the given number of microseconds.
EndsAt(range_, microseconds) ==
    /\ range_.start = None
    /\ range_.end # None
    /\ timestamp_to_microseconds(range_.end[1]) = microseconds

\* C9: _convert_to_time_range gives no range for no timestamp and for a
\* timestamp T a range with no start that ends at exactly 1000*T
\* microseconds; the filter of Table.row, Table.rows, Table.cells and
\* Table.scan has no timestamp leaf without a timestamp and with T exactly
\* one, whose range is that one.
C9_TimeRangeEndsAtCutoff ==
    /\ call.op = "_convert_to_time_range" =>
           IF call.timestamp = None THEN ret.value = NoFilter
           ELSE EndsAt(ret.value, 1000 * call.timestamp[1])
    /\ (call.op \in {"row", "rows", "cells", "scan"} /\ Built) =>
           LET leaves == TimestampLeaves(ret.value)
           IN  IF call.timestamp = None THEN leaves = <<>>
               ELSE /\ Len(leaves) = 1
                    /\ EndsAt(leaves[1].range_, 1000 * call.timestamp[1])

C9_Witness ==
    /\ call.op = "scan"
    /\ call.timestamp = Some(2)
    /\ Built
    /\ Len(TimestampLeaves(ret.value)) = 1
    /\ TimestampLeaves(ret.value)[1].range_.end =
           Some([second |-> 0, microsecond |-> 2000])

\* Timestamps of stored cells, in milliseconds.
CellMillis == (0..(MaxTimestamp + 1)) \cup {1998, 1999, 2000}

\* C10: with a timestamp T the timestamp leaf that _filter_chain_helper,
\* Table.rows, Table.cells and Table.scan build matches a cell stamped at
\* exactly T milliseconds and every earlier one, and no later one.
C10_MatchesCellsAtOrBeforeTimestamp ==
    ( /\ call.op \in {"_filter_chain_helper", "rows", "cells", "scan"}
      /\ call.timestamp # None
      /\ Built ) =>
        LET leaves == TimestampLeaves(ret.value)
        IN  /\ Len(leaves) = 1
            /\ \A cell \in CellMillis :
                   TimestampRangeMatches(leaves[1].range_, 1000 * cell)
                       <=> cell <= call.timestamp[1]

\* An intersection of exactly two rules, one MaxAgeGCRule and one
\* MaxVersionsGCRule, in either order.
OneOfEachKind(rule) ==
    /\ rule.kind = "GCRuleIntersection"
    /\ Len(rule.rules) = 2
    /\ {rule.rules[1].kind, rule.rules[2].kind} = SIMPLE_GC_RULES

\* The max-age member and the max-versions member of such an intersection.
AgeMember(rule) ==
    IF rule.rules[1].kind = "MaxAgeGCRule" THEN rule.rules[1] ELSE rule.rules[2]

VersionsMember(rule) ==
    IF rule.rules[1].kind = "MaxVersionsGCRule" THEN rule.rules[1] ELSE rule.rules[2]

\* C11: _gc_rule_to_dict maps a max-age rule to the one-key dict
\* time_to_live: its age in seconds, a max-versions rule to the one-key dict
\* max_versions: its number of versions, and an intersection of exactly two
\* rules, one of each kind, to the two-key dict holding both bounds,
\* whichever of the two rules comes first.
C11_SimpleShapesBecomeDicts ==
    gc_pc = "done" =>
        /\ gc_rule.kind = "MaxAgeGCRule" =>
               /\ IsDict(gc_result)
               /\ gc_result.dict =
                      [time_to_live |->
                           gc_rule.max_age.days * 86400 + gc_rule.max_age.seconds]
        /\ gc_rule.kind = "MaxVersionsGCRule" =>
               /\ IsDict(gc_result)
               /\ gc_result.dict = [max_versions |-> gc_rule.max_num_versions]
        /\ OneOfEachKind(gc_rule) =>
               /\ IsDict(gc_result)
               /\ gc_result.dict =
                      [time_to_live |->
                           LET age == AgeMember(gc_rule).max_age
                           IN  age.days * 86400 + age.seconds,
                       max_versions |-> VersionsMember(gc_rule).max_num_versions]

\* The versions rule comes first and the age is more than a day.
C11_Witness ==
    /\ gc_pc = "done"
    /\ gc_rule = GCRuleIntersection(<<MaxVersionsGCRule(2),
                                      MaxAgeGCRule(TimeDelta(1, 30))>>)
    /\ IsDict(gc_result)
    /\ gc_result.dict = [time_to_live |-> 86430, max_versions |-> 2]

\* C12: for every input that is not a max-age rule, a max-versions rule or
\* an intersection of exactly two rules, one of each kind, _gc_rule_to_dict
\* returns its input unchanged and never a dict.
C12_OtherInputsUnchanged ==
    ( /\ gc_pc = "done"
      /\ gc_rule.kind \notin SIMPLE_GC_RULES
      /\ ~OneOfEachKind(gc_rule) ) =>
        /\ ~IsDict(gc_result)
        /\ gc_result = gc_rule

(***************************************************************************)
(* The wait loop and Operation.finished: what the claims speak of.         *)
(***************************************************************************)
IsQuery(entry) == entry.event = "get_operation"

IsSleep(entry) == entry.event = "sleep"

\* The status queries and the sleeps of the wait loop so far, in order.
Queries == SelectSeq(wait_trace, IsQuery)

Sleeps == SelectSeq(wait_trace, IsSleep)

Statuses == [i \in 1..Len(Queries) |-> Queries[i].status]

SleepSeconds == [i \in 1..Len(Sleeps) |-> Sleeps[i].seconds]

AllNotDone == \A i \in 1..Len(Queries) : Queries[i].status = "not_done"

WaitRunning == wait_pc \in {"query", "sleep"}

WaitEnded == wait_pc \in {"Done", "TimedOut", "Failed"}

\* C13: the wait loop returns an operation message only when a status query
\* reported done, and it is the message of that query, which is the last
\* thing the loop did (no sleep and no query after it); it ends as done only
\* so.  finished() gives True only in the call whose request reported done,
\* and issues no request after that response.
C13_ReturnsOnlyTheDoneStatus ==
    /\ [](wait_result # None =>
              /\ wait_pc = "Done"
              /\ wait_result[1] = Len(wait_trace)
              /\ IsQuery(wait_trace[Len(wait_trace)])
              /\ wait_trace[Len(wait_trace)].status = "done")
    /\ [](wait_pc = "Done" => wait_result # None)
    /\ [](\A caller \in Callers :
              fin_return[caller] = "True" => fin_response[caller] = "done")
    /\ [][\A caller \in Callers :
              (fin_return'[caller] = "True" /\ fin_return[caller] # "True") =>
                  /\ fin_pc[caller] = "response"
                  /\ fin_response[caller] = "done"
                  /\ get_operation_calls' = get_operation_calls]_vars

\* The loop returned the message of its third query and finished() gave
\* True.
C13_Witness ==
    /\ wait_pc = "Done"
    /\ wait_result = Some(5)
    /\ Statuses = <<"not_done", "not_done", "done">>
    /\ fin_return[1] = "True"

\* C14: the i-th sleep of the wait loop lasts exactly base_wait * 2^(i-1)
\* seconds, each sleep follows a query that reported not done and each
\* later query follows a sleep; for the statuses not-done, not-done, done
\* the sleeps are base_wait and 2*base_wait and the queries are three.
C14_WaitDoublesFromBaseWait ==
    /\ \A i \in 1..Len(Sleeps) :
           Sleeps[i].seconds = wait_args.base_wait * 2 ^ (i - 1)
    /\ \A i \in 1..Len(wait_trace) :
           /\ IsSleep(wait_trace[i]) =>
                  /\ i > 1
                  /\ IsQuery(wait_trace[i - 1])
                  /\ wait_trace[i - 1].status = "not_done"
           /\ (IsQuery(wait_trace[i]) /\ i > 1) => IsSleep(wait_trace[i - 1])
    /\ (Len(Queries) >= 3 /\ SubSeq(Statuses, 1, 3) = <<"not_done", "not_done", "done">>) =>
           /\ SleepSeconds = <<wait_args.base_wait, 2 * wait_args.base_wait>>
           /\ Len(Queries) = 3
           /\ Len(wait_trace) = 5

C14_Witness ==
    /\ wait_args.base_wait = 2
    /\ Statuses = <<"not_done", "not_done", "done">>
    /\ SleepSeconds = <<2, 4>>
    /\ wait_pc = "Done"

\* C15: when every status query reports not done the wait loop raises its
\* timeout error (ValueError) after exactly max_retries queries and
\* max_retries sleeps of base_wait * 2^i seconds, i = 0 .. max_retries-1, in
\* that order, and it raises it in no other case.
C15_TimesOutAfterMaxRetries ==
    /\ (AllNotDone /\ wait_pc # "idle") =>
           /\ Len(Queries) <= wait_args.max_retries
           /\ Len(Sleeps) = wait_args.max_retries => wait_pc = "TimedOut"
           /\ wait_pc \in {"query", "sleep", "TimedOut"}
    /\ wait_pc = "TimedOut" <=> wait_error = "ValueError"
    /\ wait_pc = "TimedOut" =>
           /\ AllNotDone
           /\ Len(Queries) = wait_args.max_retries
           /\ SleepSeconds =
                  [i \in 1..wait_args.max_retries |-> wait_args.base_wait * 2 ^ (i - 1)]
           /\ wait_result = None

C15_Witness ==
    /\ wait_pc = "TimedOut"
    /\ wait_args.max_retries = 3
    /\ wait_args.base_wait = 1
    /\ SleepSeconds = <<1, 2, 4>>
    /\ Len(Queries) = 3

\* C16: the wait loop never sleeps or queries more than max_retries times,
\* it ends otherwise than as done or timed out only on a failed query, and
\* once called it always ends.
C16_WaitTerminates ==
    /\ [](/\ Len(Sleeps) <= wait_args.max_retries
          /\ Len(Queries) <= wait_args.max_retries
          /\ wait_count = Len(Sleeps))
    /\ [](wait_pc = "Failed" => Queries[Len(Queries)].status = "error")
    /\ (WaitRunning ~> WaitEnded)

C16_Witness ==
    /\ wait_pc = "TimedOut"
    /\ Len(Sleeps) = MaxRetries
    /\ wait_args.max_retries = MaxRetries

\* C17: a status query that fails ends the wait loop at once with the
\* error of the query (no query and no sleep after it, no timeout error, no
\* result), and ends finished() at once with that error, with the
\* completed flag as it was.
C17_QueryFailureReachesCaller ==
    /\ [](\A i \in 1..Len(wait_trace) :
              wait_trace[i].status = "error" =>
                  /\ i = Len(wait_trace)
                  /\ wait_pc = "Failed"
                  /\ wait_error = "RpcError"
                  /\ wait_result = None)
    /\ [](wait_error = "RpcError" =>
              /\ wait_trace # <<>>
              /\ wait_trace[Len(wait_trace)].status = "error")
    /\ [](\A caller \in Callers :
              fin_response[caller] = "error" =>
                  /\ fin_pc[caller] = "idle"
                  /\ fin_return[caller] = "RpcError")
    /\ [][\A caller \in Callers :
              (fin_pc[caller] = "request" /\ fin_response'[caller] = "error") =>
                  /\ op_complete' = op_complete
                  /\ fin_return'[caller] = "RpcError"
                  /\ fin_pc'[caller] = "idle"]_vars

C17_Witness ==
    /\ wait_pc = "Failed"
    /\ Statuses = <<"not_done", "error">>
    /\ fin_return[1] = "RpcError"
    /\ fin_response[1] = "error"
    /\ finished_calls = 2

\* C18: the completed flag starts false, becomes true only in the
\* finished() call whose request reported done, never returns to false,
\* and is still false after a call whose request reported not done, after
\* which finished() can be called again.
C18_CompleteOnlyOnDone ==
    /\ ~op_complete
    /\ [][/\ (~op_complete /\ op_complete') =>
                \E caller \in Callers :
                    /\ fin_pc[caller] = "response"
                    /\ fin_response[caller] = "done"
                    /\ fin_return'[caller] = "True"
          /\ op_complete => op_complete'
          /\ \A caller \in Callers :
                 ( /\ fin_pc[caller] = "response"
                   /\ fin_response[caller] = "not_done"
                   /\ fin_pc'[caller] = "idle" ) =>
                     /\ ~op_complete'
                     /\ fin_return'[caller] = "False"
          /\ \A caller \in Callers :
                 ( /\ ~op_complete
                   /\ fin_pc[caller] = "idle"
                   /\ fin_return[caller] = "False"
                   /\ finished_calls' = finished_calls + 1 ) =>
                     fin_pc'[caller] = "request"]_vars

C18_Witness ==
    /\ op_complete
    /\ finished_calls = 3
    /\ get_operation_calls = 3
    /\ fin_return[1] = "True"
    /\ fin_pc[1] = "idle"

\* C19: a finished() call on a completed operation raises ValueError,
\* issues no status query and leaves the operation completed.
C19_FinishedOnCompletedRaises ==
    [][(op_complete /\ finished_calls' = finished_calls + 1) =>
           /\ \E caller \in Callers :
                  /\ fin_pc[caller] = "idle"
                  /\ fin_pc'[caller] = "idle"
                  /\ fin_return'[caller] = "ValueError"
           /\ get_operation_calls' = get_operation_calls
           /\ op_complete']_vars

C19_Witness ==
    /\ op_complete
    /\ fin_return[1] = "ValueError"
    /\ fin_pc[1] = "idle"
    /\ get_operation_calls = 1
    /\ finished_calls = 2

\* Whether read_rows(start_key, end_key) reads the row of this key: the
\* keys from start_key on and below end_key, a bound that is absent or
\* empty being no bound.
KeyInRange(key, start_key, end_key) ==
    /\ (start_key = None \/ start_key[1] = <<>>) \/ ~BytesLess(key, start_key[1])
    /\ (end_key = None \/ end_key[1] = <<>>) \/ BytesLess(key, end_key[1])

\* The byte string has this prefix.
HasPrefix(key, prefix) ==
    /\ Len(key) >= Len(prefix)
    /\ SubSeq(key, 1, Len(prefix)) = prefix

\* Row keys of a table: the probes and the prefix followed by a probe.
RowKeysFor(prefix) == Probes \cup {prefix \o probe : probe \in Probes}

\* C20: Table.scan with a row_prefix p reads from p up to the successor of
\* p, the row keys of that range are exactly those that have p as a prefix,
\* and when the successor is empty every key from p on is read.
C20_PrefixScanReadsThePrefixRange ==
    ( /\ call.op = "scan"
      /\ call.row_prefix # None
      /\ read_request # None ) =>
        LET prefix == call.row_prefix[1]
            request == read_request[1]
        IN  /\ request.start_key = Some(prefix)
            /\ request.end_key = Some(string_successor(prefix))
            /\ \A key \in RowKeysFor(prefix) :
                   KeyInRange(key, request.start_key, request.end_key)
                       <=> HasPrefix(key, prefix)
            /\ string_successor(prefix) = <<>> =>
                   \A key \in RowKeysFor(prefix) :
                       KeyInRange(key, request.start_key, request.end_key)
                           <=> ~BytesLess(key, prefix)

C20_Witness ==
    /\ call.op = "scan"
    /\ call.row_prefix = Some(<<97, MaxByte>>)
    /\ read_request # None
    /\ read_request[1].start_key = Some(<<97, MaxByte>>)
    /\ read_request[1].end_key = Some(<<98>>)
    /\ KeyInRange(<<97, MaxByte, 0>>, read_request[1].start_key, read_request[1].end_key)
    /\ ~KeyInRange(<<98>>, read_request[1].start_key, read_request[1].end_key)

\* C21: Table.cells and _filter_chain_helper, given a column that does not
\* split on ':' into exactly a family and a qualifier, raise ValueError with
\* no filter returned, nothing added to the filters list and no read
\* issued; whenever they raise, no filter is returned and no read issued,
\* and otherwise a whole filter is returned.
C21_MalformedColumnRaisesFirst ==
    ( /\ call.op \in {"cells", "_filter_chain_helper"}
      /\ call.column # None ) =>
        /\ Cardinality(Colons(call.column[1])) # 1 =>
               /\ ret.raised = "ValueError"
               /\ ret.filters = (IF call.filters = None THEN <<>> ELSE call.filters[1])
        /\ ret.raised # "" =>
               /\ ret.value = NoFilter
               /\ read_request = None
        /\ ret.raised = "" => ret.value # NoFilter

\* Table.cells with the column "f:c:d", a version cap and a timestamp.
C21_Witness ==
    /\ call.op = "cells"
    /\ call.column = Some(<<"f", ":", "c", ":", "d">>)
    /\ call.versions = Some(2)
    /\ call.timestamp = Some(1)
    /\ ret.raised = "ValueError"
    /\ ret.filters = <<>>
    /\ read_request = None

\* The calls that build a filter.
CompileCalls ==
    {"_filter_chain_helper", "_columns_filter_helper", "_row_keys_filter_helper",
     "row", "rows", "cells", "scan"}

\* C22: a call that built a filter, made once more with the same arguments,
\* builds the same filter: the same kinds of node, the same leaf values and
\* the same order of children.
C22_CompilingTwiceGivesTheSameTree ==
    ( /\ call.op \in CompileCalls
      /\ Built
      /\ ret_again # None ) =>
        /\ ret_again[1].raised = ""
        /\ SameFilter(ret.value, ret_again[1].value)

\* C23: the filters list given to _filter_chain_helper holds after the call
\* what it held before it, and so after the call is made once more.
C23_FiltersListUnchanged ==
    ( /\ call.op = "_filter_chain_helper"
      /\ call.filters # None ) =>
        /\ ret.filters = call.filters[1]
        /\ ret_again # None => ret_again[1].filters = call.filters[1]

\* C24: the timeout given to a poll is the timeout every one of its status
\* queries carries, and it changes neither the sleeps nor the retry cap:
\* each query of the wait loop carries the loop's timeout, the sleeps are
\* the base wait doubled and the queries stay within the cap whatever the
\* timeout is, and the request of finished() carries the timeout it was
\* given whenever one was given.
C24_TimeoutForwardedUnchanged ==
    /\ \A i \in 1..Len(Queries) :
           Queries[i].timeout_seconds = wait_args.timeout_seconds
    /\ \A i \in 1..Len(Sleeps) :
           Sleeps[i].seconds = wait_args.base_wait * 2 ^ (i - 1)
    /\ Len(Queries) <= wait_args.max_retries
    /\ \A caller \in Callers :
           (fin_pc[caller] \in {"request", "response"} /\ fin_given[caller] # None)
               => fin_timeout[caller] = fin_given[caller][1]

\* C25: the result of _string_successor sorts after the string it was
\* given, and no string that sorts after the given string is shorter than
\* the result.
C25_SuccessorIsShortestStringAfter ==
    succ_pc = "done" =>
        /\ BytesLess(str_val, succ_result)
        /\ \A q \in Probes :
               BytesLess(str_val, q) => Len(succ_result) <= Len(q)

\* The arguments for which Table.scan raises ValueError.
ScanValueErrorCase ==
    \/ call.unsupported # ""
    \/ call.limit # None /\ call.limit[1] < 1
    \/ call.row_prefix # None /\ (call.row_start # None \/ call.row_stop # None)

\* A filter given to Table.scan as a string.
ScanStringFilter == call.filter # None /\ call.filter[1].kind = "str"

\* C26: Table.scan with batch_size, scan_batching or sorted_columns set,
\* with a limit below 1, or with row_prefix next to row_start or row_stop
\* raises ValueError; with a string filter and none of those it raises
\* TypeError; and in every one of these cases no read_rows request is made.
C26_ScanRejectsBeforeReading ==
    call.op = "scan" =>
        /\ ScanValueErrorCase => ret.raised = "ValueError"
        /\ (ScanStringFilter /\ ~ScanValueErrorCase) => ret.raised = "TypeError"
        /\ (ScanValueErrorCase \/ ScanStringFilter) =>
               /\ ret.value = NoFilter
               /\ read_request = None

\* A scan with a limit of 0 and nothing else wrong.
C26_Witness ==
    /\ call.op = "scan"
    /\ call.limit = Some(0)
    /\ call.unsupported = ""
    /\ call.row_prefix = None
    /\ ~ScanStringFilter
    /\ ret.raised = "ValueError"
    /\ read_request = None

\* The last thing the wait loop did.
LastEvent == wait_trace[Len(wait_trace)]

\* C27 (as stated): the timeout error is raised right after a not-done
\* status query, so the last action of the loop before it is never a sleep.
C27_SleepNeverLastBeforeTimeout ==
    wait_pc = "TimedOut" =>
        /\ IsQuery(LastEvent)
        /\ LastEvent.status = "not_done"

\* C27 (amended): every not-done status query is followed by a sleep, the
\* retry cap is tested after that sleep, and so the timeout error comes
\* right after the sleep that follows the last of max_retries not-done
\* queries; a sleep never comes but right after a not-done query.
C27_TimeoutDecidedAfterTheSleep ==
    /\ wait_pc = "sleep" =>
           /\ IsQuery(LastEvent)
           /\ LastEvent.status = "not_done"
           /\ wait_error = ""
    /\ \A i \in 1..Len(wait_trace) :
           IsSleep(wait_trace[i]) =>
               /\ i > 1
               /\ IsQuery(wait_trace[i - 1])
               /\ wait_trace[i - 1].status = "not_done"
    /\ \A i \in 1..(Len(wait_trace) - 1) :
           (IsQuery(wait_trace[i]) /\ wait_trace[i].status = "not_done") =>
               IsSleep(wait_trace[i + 1])
    /\ wait_pc = "TimedOut" =>
           /\ IsSleep(LastEvent)
           /\ wait_count = wait_args.max_retries
           /\ Len(Sleeps) = Len(Queries)

\* A timeout after two rounds: query, sleep, query, sleep, error.
C27_Witness ==
    /\ wait_pc = "TimedOut"
    /\ wait_args.max_retries = 2
    /\ Len(wait_trace) = 4
    /\ IsSleep(LastEvent)
    /\ LastEvent.seconds = 2 * wait_args.base_wait

\* A step in which a caller of finished() writes the completed flag.
WritesComplete(caller) ==
    /\ fin_pc[caller] = "response"
    /\ fin_response[caller] = "done"
    /\ fin_pc'[caller] = "idle"

\* C28: however the steps of two finished() calls interleave, the
\* completed flag is written at most once, so only while it is not yet
\* set, and no status query is made once it is set.
C28_CompleteWrittenOnceNoQueryAfter ==
    [][ /\ (\E caller \in Callers : WritesComplete(caller)) => ~op_complete
        /\ op_complete => get_operation_calls' = get_operation_calls ]_vars

\* The keys of the pairs Table.rows returned, in order.
ResultKeys == [i \in 1..Len(rows_result[1]) |-> rows_result[1][i][1]]

\* Whether s is t with some of its entries left out.
IsSubsequence(s, t) ==
    \E places \in [1..Len(s) -> 1..Len(t)] :
        /\ \A i \in 1..Len(s) : s[i] = t[places[i]]
        /\ \A i \in 1..(Len(s) - 1) : places[i] < places[i + 1]

\* How often a key stands in a list of keys.
Occurrences(row_key, row_keys) ==
    Cardinality({i \in 1..Len(row_keys) : row_keys[i] = row_key})

\* C29: Table.rows returns one pair for each requested key that the read
\* returned, the key with the dictionary of its row, in the order the keys
\* were requested, and none for a key that was not returned; for an empty
\* list of keys it returns the empty list without raising and without a
\* read.
C29_RowsInRequestedOrder ==
    call.op = "rows" =>
        /\ call.rows[1] = <<>> =>
               /\ rows_result = Some(<<>>)
               /\ ret.raised = ""
               /\ read_request = None
        /\ (call.rows[1] # <<>> /\ rows_result # None) =>
               /\ read_request # None
               /\ rows_data # None
               /\ IsSubsequence(ResultKeys, call.rows[1])
               /\ \A row_key \in RowKeySample :
                      Occurrences(row_key, ResultKeys) =
                          IF row_key \in DOMAIN rows_data[1]
                          THEN Occurrences(row_key, call.rows[1])
                          ELSE 0
               /\ \A i \in 1..Len(rows_result[1]) :
                      LET row == rows_data[1][ResultKeys[i]]
                          dict == rows_result[1][i][2]
                      IN  /\ DOMAIN dict = DOMAIN row
                          /\ \A column \in DOMAIN row :
                                 dict[column] =
                                     IF call.include_timestamp
                                     THEN <<row[column][1].value,
                                            row[column][1].timestamp.second * 1000
                                            + row[column][1].timestamp.microsecond \div 1000>>
                                     ELSE row[column][1].value

\* Two keys requested, the one that comes first in the request not found.
C29_Witness ==
    /\ call.op = "rows"
    /\ call.rows = Some(<<<<98>>, <<97>>>>)
    /\ call.include_timestamp
    /\ rows_data # None
    /\ DOMAIN rows_data[1] = {<<97>>}
    /\ rows_result = Some(<< <<<<97>>, [column \in {"f:c"} |-> <<"v1", 2000>>]>> >>)

\* What a logged counter call asked to be added to the counter.
Amount(entry) ==
    IF entry.op = "counter_inc" THEN entry.value
    ELSE IF entry.op = "counter_dec" THEN 0 - entry.value
    ELSE 0

\* The sum of what the first n logged calls asked to be added.
RECURSIVE SumOfDeltas(_)
SumOfDeltas(n) ==
    IF n = 0 THEN 0 ELSE SumOfDeltas(n - 1) + Amount(counter_log[n])

\* Two logged calls that did the same: same stored value after, same
\* exception or same result.
SameOutcome(entry, other) ==
    /\ entry.after = other.after
    /\ entry.raised = other.raised
    /\ entry.result = other.result

\* C30: counter_dec with v does what counter_inc with -v does, and
\* counter_get what counter_inc with 0 does; on a column that did not
\* exist every call that returns gives the sum of the amounts applied so
\* far, starting from 0, counter_get among them, which leaves the stored
\* value as it was; and a call raises ValueError exactly when the response
\* does not hold exactly one cell of the column.
C30_CountersAddUp ==
    /\ \A i \in 1..Len(counter_log) :
           LET entry == counter_log[i]
           IN  /\ entry.before = SumOfDeltas(i - 1)
               /\ entry.after = SumOfDeltas(i)
               /\ entry.raised \in {"", "ValueError"}
               /\ entry.raised = "" => entry.result = Some(SumOfDeltas(i))
               /\ entry.raised # "" => entry.result = None
               /\ entry.op = "counter_get" => entry.after = entry.before
    /\ \A i, j \in 1..Len(counter_log) :
           LET entry == counter_log[i]
               other == counter_log[j]
           IN  ( /\ other.op = "counter_inc"
                 /\ other.before = entry.before
                 /\ (other.raised = "") = (entry.raised = "")
                 /\ \/ entry.op = "counter_dec" /\ other.value = 0 - entry.value
                    \/ entry.op = "counter_get" /\ other.value = 0 )
                   => SameOutcome(entry, other)
    /\ counter_log # <<>> =>
           /\ counter_cell # None
           /\ Len(counter_cell[1]) = 8
           /\ StoredValue(counter_cell) = SumOfDeltas(Len(counter_log))
           /\ (Len(counter_response) # 1) <=>
                  (counter_log[Len(counter_log)].raised = "ValueError")

\* A decrement by 2 and an increment by 1 on a new column, then
\* counter_get: it gives -1, stored as eight 0xff bytes.
C30_Witness ==
    /\ Len(counter_log) = 3
    /\ counter_log[1].op = "counter_dec" /\ counter_log[1].value = 2
    /\ counter_log[2].op = "counter_inc" /\ counter_log[2].value = 1
    /\ counter_log[3].op = "counter_get"
    /\ counter_log[3].result = Some(0 - 1)
    /\ counter_cell = Some(<<255, 255, 255, 255, 255, 255, 255, 255>>)

====
